---- MODULE Spec2Model ----
(***************************************************************************)
(* The interception and background-recording layer of provenant_sdk.py:    *)
(* the wrapped provider calls (synchronous create, asynchronous create,    *)
(* create(stream=True), the scoped stream object), the session scope of    *)
(* ProvenantClient.session, the background units the wrappers spawn, and   *)
(* the backend as the sequence of requests and answers it sees.            *)
(***************************************************************************)
EXTENDS Integers, Sequences, FiniteSets, TLC

\* The default of the _active_session ContextVar: no session.
None == 0

\* The wrapped calls followed through the layer and the caller chains (threads
\* or tasks) that make them.  Calls share nothing but their chain's active
\* session, which a call reads once, at entry.  A run follows one call on
\* one chain (the other call and chain stay idle) or two calls on two chains.
Calls == {1, 2}
Chains == {1, 2}
OneCall == {1}
OneChain == {1}

\* Longest list of input messages, longest response sequence of a streamed
\* call, and the number of session scopes one chain opens.
MaxMsgs == 2
MaxChunks == 2
MaxScopes == 1
\* Longest timeout_seconds and poll_interval_seconds passed to
\* wait_for_completion, and the longest time one get_eval_run takes.
MaxTimeout == 3
MaxInterval == 2
MaxLatency == 2

\* The kinds of input message: a plain user message, an Anthropic user message
\* carrying tool_result items, an assistant message, an OpenAI role-tool message.
Kinds == {"user", "user_tr", "assistant", "tool"}
Providers == {"anthropic", "openai"}
Shapes == {"sync", "async", "flag", "ctx"}
Units == {"t", "r", "m"}
\* The elements of a streamed response, in the order the provider sends them.
ChunkNames == <<"c1", "c2", "c3", "c4">>
Responses == {"resp"}
Excs == {"exc"}
\* The client objects handed to instrument, by module and class name, and
\* the two forms of its agent_id argument.
Clients == {"anthropic.Anthropic", "anthropic.AsyncAnthropic",
            "openai.OpenAI", "openai.AsyncOpenAI", "other.Client"}
AgentIds == {"uuid", "name"}
\* The status of an eval run as the backend reports it.
RunStatuses == {"RUNNING", "COMPLETED", "FAILED"}

VARIABLES
    active,   \* active[ch]: the chain's _active_session value
    frames,   \* frames[ch]: the stack of open session scopes of the chain
    cpc,      \* cpc[ch]: what the chain's caller thread is doing
    nsc,      \* nsc[ch]: scopes the chain has opened so far
    slog,     \* slog[ch]: the backend requests and answers of the chain's scopes
    call,     \* call[c]: what the wrapped call captured at entry
    mpc,      \* mpc[c]: position of the caller inside the wrapped call
    unit,     \* unit[c][u]: the background unit u of call c
    slot,     \* slot[c]: the result slot (session_id[0], session_ok[0])
    strm,     \* strm[c]: the underlying response sequence and the drained chunks
    orig,     \* orig[c]: what the original provider call did
    out,      \* out[c]: what the caller got from the wrapped call
    hist,     \* hist[c]: what happened at the bounded wait and the scope exit
    wlog,     \* wlog[c]: the backend requests and answers made for call c
    inst,     \* inst: the call of instrument(client, agent_id=...)
    wfc       \* wfc: the call of wait_for_completion and the clock it reads

vars == <<active, frames, cpc, nsc, slog, call, mpc, unit, slot, strm, orig, out, hist, wlog, inst, wfc>>

\* What the steps of a wrapped call leave alone, and what the steps of a
\* session scope leave alone; neither touches the call of instrument or of
\* wait_for_completion.
scopeVars == <<active, frames, nsc, slog, inst, wfc>>
callVars == <<call, mpc, unit, slot, strm, orig, out, hist, wlog, inst, wfc>>

-----------------------------------------------------------------------------
\* Input messages: every list of at most MaxMsgs role-tagged messages.

RECURSIVE SeqsUpTo(_, _)
SeqsUpTo(S, n) ==
    IF n = 0 THEN {<<>>}
    ELSE LET shorter == SeqsUpTo(S, n - 1)
         IN  shorter \cup {Append(s, x) : s \in shorter, x \in S}

InputMessages == SeqsUpTo(Kinds, MaxMsgs)
\* The response sequences of a streamed call: the first n elements.
ChunkSeqs == {SubSeq(ChunkNames, 1, n) : n \in 0..MaxChunks}

\* next((m for m in reversed(messages) if m.get("role") == "user"), None):
\* the index of the last user-role message, None when there is none.
LastUser(messages) ==
    LET idx == {i \in 1..Len(messages) : messages[i] \in {"user", "user_tr"}}
    IN  IF idx = {} THEN None ELSE CHOOSE i \in idx : \A j \in idx : j <= i

\* The tool_result items found in user messages (Anthropic format).
DetectAnthropicToolResults(messages) ==
    {i \in 1..Len(messages) : messages[i] = "user_tr"}

\* The messages with role "tool" (OpenAI format).
DetectOpenaiToolResults(messages) ==
    {i \in 1..Len(messages) : messages[i] = "tool"}

\* The TOOL turns the creation unit writes: Anthropic, one turn holding all
\* the tool results when there is any; OpenAI, one turn per tool message.
ToolTurns(prov, messages) ==
    IF prov = "anthropic"
    THEN (IF DetectAnthropicToolResults(messages) # {} THEN 1 ELSE 0)
    ELSE Cardinality(DetectOpenaiToolResults(messages))

-----------------------------------------------------------------------------
\* Session ids the backend hands out: one per create_session request.
SidOfCall(c) == c
SidOfScope(ch, k) == 10 * ch + k

\* One entry of a backend log: a request as it is issued, or its answer.
Ev(kind, op, sid, arg, u, late) ==
    [e |-> kind, op |-> op, sid |-> sid, arg |-> arg, u |-> u, late |-> late]

\* An end_session for session sid has been issued, by a call or by a scope.
EndIssued(sid) ==
    \/ \E c \in Calls : \E i \in 1..Len(wlog[c]) :
          wlog[c][i].e = "req" /\ wlog[c][i].op = "end" /\ wlog[c][i].sid = sid
    \/ \E ch \in Chains : \E i \in 1..Len(slog[ch]) :
          slog[ch][i].e = "req" /\ slog[ch][i].op = "end" /\ slog[ch][i].sid = sid

-----------------------------------------------------------------------------
\* The programs of the background units: the backend writes a unit makes, in
\* order, with the local steps between them.  A failed write raises inside
\* the unit and ends it (every unit body is one try/except).

Rep(instr, n) == [i \in 1..n |-> instr]
When(cond, prog) == IF cond THEN prog ELSE <<>>

\* _create_session of the synchronous wrappers.
CreateSessionProg(managed, tools, user) ==
    When(~managed, <<"create">>) \o <<"checksid">> \o Rep("tool", tools)
        \o When(user, <<"user">>) \o <<"setok">>

\* _record_and_end without its guard on the result slot.
RecordAndEndUnguarded(managed) ==
    <<"asst">> \o When(~managed, <<"endC">>)

\* _record_and_end of the synchronous wrappers.
RecordAndEndProg(managed) ==
    <<"check", "asst">> \o When(~managed, <<"endC">>)

\* The pre-call try block of the asynchronous wrappers.
AsyncPreProg(managed, tools, user) ==
    When(~managed, <<"create">>) \o <<"checksid">> \o Rep("tool", tools)
        \o When(user, <<"user">>)

\* _record of the asynchronous wrappers.
AsyncRecordProg(managed) ==
    <<"checksid", "asst">> \o When(~managed, <<"endC">>)

\* _create_and_record / _record_stream_managed of create(stream=True).
FlagRecordProg(managed, user) ==
    IF managed THEN <<"asst">>
    ELSE <<"create">> \o When(user, <<"user">>) \o <<"asst", "endC">>

\* _create of _AnthropicStreamWrapper.__enter__.
CtxCreateProg(user) ==
    <<"create">> \o When(user, <<"user">>) \o <<"setok">>

\* _record ending the session whether or not the call is managed.
CtxRecordAlwaysEnds(managed) ==
    <<"asst", "endC">>

\* _record of _AnthropicStreamWrapper.__exit__.
CtxRecordProg(managed) ==
    <<"asst">> \o When(~managed, <<"endC">>)

\* The except branch marking the session FAILED and then ending it again
\* with the default status.
MarkFailedThenCompleted == <<"endF", "endC">>

\* The except branch of the wrapped call: end_session(status="FAILED").
MarkFailedProg == <<"endF">>

WriteInstrs == {"create", "tool", "user", "asst", "endC", "endF"}

OpOf(instr) ==
    CASE instr = "create" -> "create"
      [] instr \in {"tool", "user", "asst"} -> "turn"
      [] OTHER -> "end"

ArgOf(instr) ==
    CASE instr = "create" -> "-"
      [] instr = "tool" -> "TOOL"
      [] instr = "user" -> "USER"
      [] instr = "asst" -> "ASSISTANT"
      [] instr = "endC" -> "COMPLETED"
      [] OTHER -> "FAILED"

NoUnit == [st |-> "none", todo |-> <<>>, wait |-> FALSE]
Spawned(prog) == [st |-> "run", todo |-> prog, wait |-> FALSE]

\* The unit has run to its end: what Thread.join and await wait for.
Finished(c, u) ==
    unit[c][u].st = "run" /\ unit[c][u].todo = <<>> /\ ~unit[c][u].wait

\* The request addressed to the session active on the caller's chain at the
\* time the unit issues it instead of the session captured at entry.
UnitIssueReadsActive(c, u) ==
    /\ unit[c][u].st = "run" /\ ~unit[c][u].wait
    /\ unit[c][u].todo # <<>>
    /\ Head(unit[c][u].todo) \in WriteInstrs
    /\ LET instr == Head(unit[c][u].todo)
           sid == IF instr = "create" THEN None
                  ELSE IF call[c].managed THEN active[call[c].ch]
                  ELSE slot[c].sid
       IN  wlog' = [wlog EXCEPT ![c] =
                Append(@, Ev("req", OpOf(instr), sid, ArgOf(instr), u,
                             sid # None /\ EndIssued(sid)))]
    /\ unit' = [unit EXCEPT ![c][u].wait = TRUE]
    /\ UNCHANGED <<scopeVars, cpc, call, mpc, slot, strm, orig, out, hist>>

\* The unit issues the backend request at the head of its program.
UnitIssue(c, u) ==
    /\ unit[c][u].st = "run" /\ ~unit[c][u].wait
    /\ unit[c][u].todo # <<>>
    /\ Head(unit[c][u].todo) \in WriteInstrs
    /\ LET instr == Head(unit[c][u].todo)
           sid == IF instr = "create" THEN None ELSE slot[c].sid
       IN  wlog' = [wlog EXCEPT ![c] =
                Append(@, Ev("req", OpOf(instr), sid, ArgOf(instr), u,
                             sid # None /\ EndIssued(sid)))]
    /\ unit' = [unit EXCEPT ![c][u].wait = TRUE]
    /\ UNCHANGED <<scopeVars, cpc, call, mpc, slot, strm, orig, out, hist>>

\* The answer stored in a result slot that all wrapped calls share instead of
\* the slot of the call the unit belongs to.
UnitOkSharedSlot(c, u) ==
    /\ unit[c][u].wait
    /\ LET instr == Head(unit[c][u].todo)
           sid == IF instr = "create" THEN SidOfCall(c) ELSE slot[c].sid
       IN  /\ wlog' = [wlog EXCEPT ![c] =
                Append(@, Ev("ok", OpOf(instr), sid, ArgOf(instr), u, FALSE))]
           /\ slot' = IF instr = "create"
                      THEN [d \in Calls |-> [slot[d] EXCEPT !.sid = SidOfCall(c)]]
                      ELSE slot
    /\ unit' = [unit EXCEPT ![c][u].wait = FALSE, ![c][u].todo = Tail(@)]
    /\ UNCHANGED <<scopeVars, cpc, call, mpc, strm, orig, out, hist>>

\* The backend answers the request with success; create_session returns the
\* new session, whose id the unit stores.
UnitOk(c, u) ==
    /\ unit[c][u].wait
    /\ LET instr == Head(unit[c][u].todo)
           sid == IF instr = "create" THEN SidOfCall(c) ELSE slot[c].sid
       IN  /\ wlog' = [wlog EXCEPT ![c] =
                Append(@, Ev("ok", OpOf(instr), sid, ArgOf(instr), u, FALSE))]
           /\ slot' = IF instr = "create"
                      THEN [slot EXCEPT ![c].sid = SidOfCall(c)]
                      ELSE slot
    /\ unit' = [unit EXCEPT ![c][u].wait = FALSE, ![c][u].todo = Tail(@)]
    /\ UNCHANGED <<scopeVars, cpc, call, mpc, strm, orig, out, hist>>

\* The request fails (ProvenantError, a network error, the HTTP timeout): the
\* exception is caught by the unit's except clause and the unit ends.
UnitFail(c, u) ==
    /\ unit[c][u].wait
    /\ LET instr == Head(unit[c][u].todo)
       IN  wlog' = [wlog EXCEPT ![c] =
                Append(@, Ev("fail", OpOf(instr), None, ArgOf(instr), u, FALSE))]
    /\ unit' = [unit EXCEPT ![c][u].wait = FALSE, ![c][u].todo = <<>>]
    /\ UNCHANGED <<scopeVars, cpc, call, mpc, slot, strm, orig, out, hist>>

\* A local step of a unit: the guards and the success flag.
UnitLocal(c, u) ==
    /\ unit[c][u].st = "run" /\ ~unit[c][u].wait
    /\ unit[c][u].todo # <<>>
    /\ Head(unit[c][u].todo) \notin WriteInstrs
    /\ LET instr == Head(unit[c][u].todo)
           stop == \/ instr = "check" /\ (~slot[c].ok \/ slot[c].sid = None)
                   \/ instr = "checksid" /\ slot[c].sid = None
       IN  /\ unit' = [unit EXCEPT ![c][u].todo = IF stop THEN <<>> ELSE Tail(@)]
           /\ slot' = IF instr = "setok" THEN [slot EXCEPT ![c].ok = TRUE] ELSE slot
    /\ UNCHANGED <<scopeVars, cpc, call, mpc, strm, orig, out, hist, wlog>>

-----------------------------------------------------------------------------
\* State after construction: no scope open, no call made.

NoCall == [ch |-> 0, shape |-> "none", managed |-> FALSE, sid0 |-> None,
           user |-> FALSE, tools |-> 0]
NoOut == [k |-> "none", v |-> <<>>]
NoHist == [timedOut |-> FALSE, bodyExc |-> "-", final |-> "-"]
NoInst == [pc |-> "idle", client |-> "-", agent |-> "-", out |-> NoOut]
NoWait == [pc |-> "idle", now |-> 0, deadline |-> 0, interval |-> 0,
           polls |-> 0, out |-> NoOut]

Init ==
    /\ active = [ch \in Chains |-> None]
    /\ frames = [ch \in Chains |-> <<>>]
    /\ cpc = [ch \in Chains |-> "idle"]
    /\ nsc = [ch \in Chains |-> 0]
    /\ slog = [ch \in Chains |-> <<>>]
    /\ call = [c \in Calls |-> NoCall]
    /\ mpc = [c \in Calls |-> "idle"]
    /\ unit = [c \in Calls |-> [u \in Units |-> NoUnit]]
    /\ slot = [c \in Calls |-> [sid |-> None, ok |-> FALSE]]
    /\ strm = [c \in Calls |-> [src |-> <<>>, chunks |-> <<>>]]
    /\ orig = [c \in Calls |-> NoOut]
    /\ out = [c \in Calls |-> NoOut]
    /\ hist = [c \in Calls |-> NoHist]
    /\ wlog = [c \in Calls |-> <<>>]
    /\ inst = NoInst
    /\ wfc = NoWait

-----------------------------------------------------------------------------
\* Entry of a wrapped call: existing_sid = _active_session.get(), is_managed,
\* last_user and the tool results, captured once for the whole call.

Captured(ch, shape, prov, messages) ==
    [ch |-> ch, shape |-> shape, managed |-> active[ch] # None,
     sid0 |-> active[ch], user |-> LastUser(messages) # None,
     tools |-> ToolTurns(prov, messages)]

\* Calls are numbered in the order they are made.
NextCall(c) == mpc[c] = "idle" /\ \A d \in Calls : d < c => mpc[d] # "idle"

Enter(c, ch, shape, prov, messages, pc, t) ==
    /\ call' = [call EXCEPT ![c] = Captured(ch, shape, prov, messages)]
    /\ slot' = [slot EXCEPT ![c] = [sid |-> active[ch], ok |-> active[ch] # None]]
    /\ unit' = [unit EXCEPT ![c]["t"] = t]
    /\ mpc' = [mpc EXCEPT ![c] = pc]
    /\ cpc' = [cpc EXCEPT ![ch] = "call"]
    /\ UNCHANGED <<scopeVars, strm, orig, out, hist, wlog>>

\* The wrapped call ends: the caller gets a value or an exception.
Leave(c, outcome) ==
    /\ mpc' = [mpc EXCEPT ![c] = "done"]
    /\ out' = [out EXCEPT ![c] = outcome]
    /\ cpc' = [cpc EXCEPT ![call[c].ch] = "idle"]

Returned(v) == [k |-> "ret", v |-> <<v>>]
Raised(x) == [k |-> "raise", v |-> <<x>>]
Iterated(chunks) == [k |-> "iter", v |-> chunks]

\* Thread.join(timeout): returns when the unit has finished, or, the unit
\* still running, when the timeout expires.
Join(c, u, timedOut) == timedOut = ~Finished(c, u)

-----------------------------------------------------------------------------
\* Synchronous create (Anthropic messages.create, OpenAI completions.create).

SyncEnter(c, ch) ==
    /\ NextCall(c) /\ cpc[ch] = "idle"
    /\ \E prov \in Providers, messages \in InputMessages :
            Enter(c, ch, "sync", prov, messages, "orig",
                  Spawned(CreateSessionProg(active[ch] # None,
                                            ToolTurns(prov, messages),
                                            LastUser(messages) # None)))

SyncOrigReturn(c) ==
    /\ mpc[c] = "orig" /\ call[c].shape = "sync"
    /\ \E v \in Responses : orig' = [orig EXCEPT ![c] = Returned(v)]
    /\ mpc' = [mpc EXCEPT ![c] = "join5"]
    /\ UNCHANGED <<scopeVars, cpc, call, unit, slot, strm, out, hist, wlog>>

SyncOrigRaise(c) ==
    /\ mpc[c] = "orig" /\ call[c].shape = "sync"
    /\ \E x \in Excs : orig' = [orig EXCEPT ![c] = Raised(x)]
    /\ mpc' = [mpc EXCEPT ![c] = "join2"]
    /\ UNCHANGED <<scopeVars, cpc, call, unit, slot, strm, out, hist, wlog>>

\* except: t.join(timeout=2); end_session(FAILED) on the caller's thread when
\* a session id is in the slot and the call is unmanaged; raise.
SyncExcept(c) ==
    /\ mpc[c] = "join2"
    /\ \E timedOut \in BOOLEAN :
        /\ Join(c, "t", timedOut)
        /\ hist' = [hist EXCEPT ![c].timedOut = timedOut]
    /\ IF slot[c].sid # None /\ ~call[c].managed
       THEN /\ unit' = [unit EXCEPT ![c]["m"] = Spawned(MarkFailedProg)]
            /\ mpc' = [mpc EXCEPT ![c] = "endF"]
            /\ UNCHANGED <<out, cpc>>
       ELSE /\ Leave(c, Raised(orig[c].v[1]))
            /\ UNCHANGED unit
    /\ UNCHANGED <<scopeVars, call, slot, strm, orig, wlog>>

\* The answers the backend gave to the requests of unit u.
Answers(c, u) ==
    {i \in 1..Len(wlog[c]) : wlog[c][i].u = u /\ wlog[c][i].e # "req"}

\* The FAILED marking without its own try/except: its error replaces the
\* original exception.
ReraiseMarkingError(c) ==
    /\ mpc[c] = "endF" /\ Finished(c, "m")
    /\ IF \E i \in Answers(c, "m") : wlog[c][i].e = "fail"
       THEN Leave(c, Raised("ProvenantError"))
       ELSE Leave(c, Raised(orig[c].v[1]))
    /\ UNCHANGED <<scopeVars, call, unit, slot, strm, orig, hist, wlog>>

\* The FAILED marking has returned or raised (swallowed): re-raise.
Reraise(c) ==
    /\ mpc[c] = "endF" /\ Finished(c, "m")
    /\ Leave(c, Raised(orig[c].v[1]))
    /\ UNCHANGED <<scopeVars, call, unit, slot, strm, orig, hist, wlog>>

\* The recording thread joined before the response is returned: the caller
\* leaves only once _record_and_end has run to its end.
SyncReturnJoinsRecord(c) ==
    /\ mpc[c] = "join5"
    /\ IF unit[c]["r"].st = "none"
       THEN /\ \E timedOut \in BOOLEAN :
                /\ Join(c, "t", timedOut)
                /\ hist' = [hist EXCEPT ![c].timedOut = timedOut]
            /\ unit' = [unit EXCEPT ![c]["r"] =
                            Spawned(RecordAndEndProg(call[c].managed))]
            /\ UNCHANGED <<mpc, out, cpc>>
       ELSE /\ Finished(c, "r")
            /\ Leave(c, Returned(orig[c].v[1]))
            /\ UNCHANGED <<hist, unit>>
    /\ UNCHANGED <<scopeVars, call, slot, strm, orig, wlog>>

\* t.join(timeout=5); start _record_and_end; return response.
SyncReturn(c) ==
    /\ mpc[c] = "join5"
    /\ \E timedOut \in BOOLEAN :
        /\ Join(c, "t", timedOut)
        /\ hist' = [hist EXCEPT ![c].timedOut = timedOut]
    /\ unit' = [unit EXCEPT ![c]["r"] = Spawned(RecordAndEndProg(call[c].managed))]
    /\ Leave(c, Returned(orig[c].v[1]))
    /\ UNCHANGED <<scopeVars, call, slot, strm, orig, wlog>>

-----------------------------------------------------------------------------
\* Asynchronous create: the pre-call writes are awaited one after the other
\* before the original call, the final writes are a detached task.

AsyncEnter(c, ch) ==
    /\ NextCall(c) /\ cpc[ch] = "idle"
    /\ \E prov \in Providers, messages \in InputMessages :
            Enter(c, ch, "async", prov, messages, "pre",
                  Spawned(AsyncPreProg(active[ch] # None,
                                       ToolTurns(prov, messages),
                                       LastUser(messages) # None)))

\* The try block has run to its end or its exception was caught.
AsyncPreDone(c) ==
    /\ mpc[c] = "pre" /\ Finished(c, "t")
    /\ mpc' = [mpc EXCEPT ![c] = "orig"]
    /\ UNCHANGED <<scopeVars, cpc, call, unit, slot, strm, orig, out, hist, wlog>>

AsyncOrigReturn(c) ==
    /\ mpc[c] = "orig" /\ call[c].shape = "async"
    /\ \E v \in Responses :
        /\ orig' = [orig EXCEPT ![c] = Returned(v)]
        /\ Leave(c, Returned(v))
    /\ unit' = [unit EXCEPT ![c]["r"] = Spawned(AsyncRecordProg(call[c].managed))]
    /\ UNCHANGED <<scopeVars, call, slot, strm, hist, wlog>>

AsyncOrigRaise(c) ==
    /\ mpc[c] = "orig" /\ call[c].shape = "async"
    /\ \E x \in Excs :
        /\ orig' = [orig EXCEPT ![c] = Raised(x)]
        /\ IF slot[c].sid # None /\ ~call[c].managed
           THEN /\ unit' = [unit EXCEPT ![c]["m"] = Spawned(MarkFailedProg)]
                /\ mpc' = [mpc EXCEPT ![c] = "endF"]
                /\ UNCHANGED <<out, cpc>>
           ELSE /\ Leave(c, Raised(x))
                /\ UNCHANGED unit
    /\ UNCHANGED <<scopeVars, call, slot, strm, hist, wlog>>

-----------------------------------------------------------------------------
\* create(..., stream=True): the response sequence is drained into a list
\* before anything is recorded, and the caller gets an iterator over the list.

FlagEnter(c, ch) ==
    /\ NextCall(c) /\ cpc[ch] = "idle"
    /\ \E prov \in Providers, messages \in InputMessages :
            Enter(c, ch, "flag", prov, messages, "orig", NoUnit)

\* response_iter = original_create(*args, **kwargs)
FlagOrigReturn(c) ==
    /\ mpc[c] = "orig" /\ call[c].shape = "flag"
    /\ \E chunks \in ChunkSeqs :
        /\ orig' = [orig EXCEPT ![c] = Iterated(chunks)]
        /\ strm' = [strm EXCEPT ![c] = [src |-> chunks, chunks |-> <<>>]]
    /\ mpc' = [mpc EXCEPT ![c] = "drain"]
    /\ UNCHANGED <<scopeVars, cpc, call, unit, slot, out, hist, wlog>>

\* The original call raises: nothing is in a try block yet.
FlagOrigRaise(c) ==
    /\ mpc[c] = "orig" /\ call[c].shape = "flag"
    /\ \E x \in Excs :
        /\ orig' = [orig EXCEPT ![c] = Raised(x)]
        /\ Leave(c, Raised(x))
    /\ UNCHANGED <<scopeVars, call, unit, slot, strm, hist, wlog>>

\* list(response_iter), one element at a time.
FlagDrainNext(c) ==
    /\ mpc[c] = "drain" /\ strm[c].src # <<>>
    /\ strm' = [strm EXCEPT ![c] = [src |-> Tail(@.src),
                                    chunks |-> Append(@.chunks, Head(@.src))]]
    /\ UNCHANGED <<scopeVars, cpc, call, mpc, unit, slot, orig, out, hist, wlog>>

\* The recording started although the underlying sequence raised.
FlagDrainRaiseRecords(c) ==
    /\ mpc[c] = "drain"
    /\ unit' = [unit EXCEPT ![c]["r"] =
                    Spawned(FlagRecordProg(call[c].managed, call[c].user))]
    /\ \E x \in Excs :
        /\ orig' = [orig EXCEPT ![c] = Raised(x)]
        /\ out' = [out EXCEPT ![c] = Raised(x)]
        /\ mpc' = [mpc EXCEPT ![c] = "done"]
    /\ UNCHANGED <<scopeVars, cpc, call, slot, strm, hist, wlog>>

\* The underlying sequence raises while it is drained.
FlagDrainRaise(c) ==
    /\ mpc[c] = "drain"
    /\ \E x \in Excs :
        /\ orig' = [orig EXCEPT ![c] = Raised(x)]
        /\ Leave(c, Raised(x))
    /\ UNCHANGED <<scopeVars, call, unit, slot, strm, hist, wlog>>

\* return response_iter: the iterator the wrapper has already exhausted.
FlagIterExhausted(chunks, src) == src

\* return iter(chunks)
FlagIter(chunks, src) == chunks

\* The recording started and the iterator handed back without draining the
\* underlying sequence first.
FlagReturnLazy(c) ==
    /\ mpc[c] = "drain"
    /\ unit' = [unit EXCEPT ![c]["r"] =
                    Spawned(FlagRecordProg(call[c].managed, call[c].user))]
    /\ Leave(c, Iterated(FlagIter(strm[c].chunks, strm[c].src)))
    /\ UNCHANGED <<scopeVars, call, slot, strm, orig, hist, wlog>>

\* The sequence is exhausted: start the recording thread, return.
FlagReturn(c) ==
    /\ mpc[c] = "drain" /\ strm[c].src = <<>>
    /\ unit' = [unit EXCEPT ![c]["r"] =
                    Spawned(FlagRecordProg(call[c].managed, call[c].user))]
    /\ Leave(c, Iterated(FlagIter(strm[c].chunks, strm[c].src)))
    /\ UNCHANGED <<scopeVars, call, slot, strm, orig, hist, wlog>>

-----------------------------------------------------------------------------
\* messages.stream(...): the scoped stream object _AnthropicStreamWrapper.

\* patched_stream: read the active session, build the wrapper.
CtxEnter(c, ch) ==
    /\ NextCall(c) /\ cpc[ch] = "idle"
    /\ \E messages \in InputMessages :
            Enter(c, ch, "ctx", "anthropic", messages, "enter", NoUnit)

\* __enter__: the underlying __enter__ returns the stream; start _create
\* when unmanaged.
CtxEnterOk(c) ==
    /\ mpc[c] = "enter"
    /\ \E chunks \in ChunkSeqs :
        /\ orig' = [orig EXCEPT ![c] = Iterated(chunks)]
        /\ strm' = [strm EXCEPT ![c] = [src |-> chunks, chunks |-> <<>>]]
    /\ unit' = [unit EXCEPT ![c]["t"] =
                    IF call[c].managed THEN NoUnit
                    ELSE Spawned(CtxCreateProg(call[c].user))]
    /\ mpc' = [mpc EXCEPT ![c] = "body"]
    /\ UNCHANGED <<scopeVars, cpc, call, slot, out, hist, wlog>>

\* __enter__: the underlying __enter__ raises.
CtxEnterRaise(c) ==
    /\ mpc[c] = "enter"
    /\ \E x \in Excs :
        /\ orig' = [orig EXCEPT ![c] = Raised(x)]
        /\ Leave(c, Raised(x))
    /\ UNCHANGED <<scopeVars, call, unit, slot, strm, hist, wlog>>

\* __iter__ taking the first element of the underlying stream for itself
\* before handing the stream on.
CtxIterPeeks(stream) == IF stream = <<>> THEN <<>> ELSE Tail(stream)

\* __iter__: return iter(self._stream), the underlying stream itself.
CtxIter(stream) == stream

\* The caller's with-body takes the next element from the wrapper.
CtxNext(c) ==
    /\ mpc[c] = "body" /\ CtxIter(strm[c].src) # <<>>
    /\ strm' = [strm EXCEPT ![c] = [src |-> Tail(CtxIter(@.src)),
                                    chunks |-> Append(@.chunks, Head(CtxIter(@.src)))]]
    /\ UNCHANGED <<scopeVars, cpc, call, mpc, unit, slot, orig, out, hist, wlog>>

\* The caller's with-body ends, normally or with an exception, having taken
\* all or some of the elements.
CtxBody(c) ==
    /\ mpc[c] = "body"
    /\ \E x \in Excs \cup {"-"} : hist' = [hist EXCEPT ![c].bodyExc = x]
    /\ mpc' = [mpc EXCEPT ![c] = "exit"]
    /\ UNCHANGED <<scopeVars, cpc, call, unit, slot, strm, orig, out, wlog>>

\* What the with statement gave the caller: the elements, the exception
\* handed to the underlying __exit__ and the value returned from it.
Exited(exc, res, chunks) == [k |-> "exit", v |-> <<exc, res>> \o chunks]

\* return True: the exception of the body swallowed whatever the underlying
\* __exit__ answered.
CtxExitSwallows(exc, res) == <<exc, "true">>

\* return self._ctx_mgr.__exit__(exc_type, exc_val, exc_tb)
CtxExitResult(exc, res) == <<exc, res>>

\* The elements the underlying stream had handed out when the body ended.
Yielded(c) == SubSeq(orig[c].v, 1, Len(orig[c].v) - Len(strm[c].src))

\* __exit__: join(timeout=5) when a creation thread was started; with a
\* session id and the success flag in the slot, get_final_message() and, when
\* it returns, start _record; then the underlying __exit__.
CtxExit(c) ==
    /\ mpc[c] = "exit"
    /\ \E timedOut \in BOOLEAN, final \in {"ok", "raise"}, res \in {"false", "true"} :
        /\ IF unit[c]["t"].st = "none" THEN ~timedOut ELSE Join(c, "t", timedOut)
        /\ LET record == slot[c].sid # None /\ slot[c].ok
           IN  /\ record \/ final = "ok"
               /\ hist' = [hist EXCEPT ![c].timedOut = timedOut,
                                       ![c].final = IF record THEN final ELSE "-"]
               /\ unit' = [unit EXCEPT ![c]["r"] =
                               IF record /\ final = "ok"
                               THEN Spawned(CtxRecordProg(call[c].managed))
                               ELSE @]
        /\ orig' = [orig EXCEPT ![c] = Exited(hist[c].bodyExc, res, Yielded(c))]
        /\ LET given == CtxExitResult(hist[c].bodyExc, res)
           IN  Leave(c, Exited(given[1], given[2], strm[c].chunks))
    /\ UNCHANGED <<scopeVars, call, slot, strm, wlog>>

-----------------------------------------------------------------------------
\* ProvenantClient.session: the session scope of one caller chain.

SEv(kind, op, sid, arg) == Ev(kind, op, sid, arg, "s", FALSE)

\* with prov.session(...): create_session on the caller's thread.
ScopeEnter(ch) ==
    /\ cpc[ch] = "idle" /\ nsc[ch] < MaxScopes
    /\ slog' = [slog EXCEPT ![ch] = Append(@, SEv("req", "create", None, "-"))]
    /\ cpc' = [cpc EXCEPT ![ch] = "s_create"]
    /\ UNCHANGED <<active, frames, nsc, callVars>>

\* create_session returned: token = _active_session.set(s["id"]); yield.
ScopeCreated(ch) ==
    /\ cpc[ch] = "s_create"
    /\ LET sid == SidOfScope(ch, nsc[ch] + 1)
       IN  /\ slog' = [slog EXCEPT ![ch] = Append(@, SEv("ok", "create", sid, "-"))]
           /\ frames' = [frames EXCEPT ![ch] =
                   Append(@, [sid |-> sid, token |-> active[ch]])]
           /\ active' = [active EXCEPT ![ch] = sid]
    /\ nsc' = [nsc EXCEPT ![ch] = @ + 1]
    /\ cpc' = [cpc EXCEPT ![ch] = "idle"]
    /\ UNCHANGED callVars

\* create_session raised and the scope gives up: the body is not run.
ScopeCreateFailedSkipsBody(ch) ==
    /\ cpc[ch] = "s_create"
    /\ slog' = [slog EXCEPT ![ch] = Append(@, SEv("fail", "create", None, "-"))]
    /\ nsc' = [nsc EXCEPT ![ch] = @ + 1]
    /\ cpc' = [cpc EXCEPT ![ch] = "idle"]
    /\ UNCHANGED <<active, frames, callVars>>

\* create_session raised: warning, yield None, nothing is installed.
ScopeCreateFailed(ch) ==
    /\ cpc[ch] = "s_create"
    /\ slog' = [slog EXCEPT ![ch] = Append(@, SEv("fail", "create", None, "-"))]
    /\ frames' = [frames EXCEPT ![ch] = Append(@, [sid |-> None, token |-> active[ch]])]
    /\ nsc' = [nsc EXCEPT ![ch] = @ + 1]
    /\ cpc' = [cpc EXCEPT ![ch] = "idle"]
    /\ UNCHANGED <<active, callVars>>

\* What the with statement of a scope did: how its body ended ("-" for a
\* normal end, or the exception), and what the caller got from it.
BodyEnded(sid, exc) == SEv("body", "scope", sid, exc)
ScopeLeft(exc) == SEv("left", "scope", None, exc)

\* The outcome of the body of the scope that is being left.
BodyExc(ch) ==
    LET idx == {i \in 1..Len(slog[ch]) : slog[ch][i].e = "body"}
    IN  slog[ch][CHOOSE i \in idx : \A j \in idx : j <= i].arg

\* The scope exit without _active_session.reset(token).
ScopeExitKeepsActive(ch) ==
    /\ cpc[ch] = "idle" /\ frames[ch] # <<>>
    /\ \E exc \in Excs \cup {"-"} :
        LET top == frames[ch][Len(frames[ch])]
        IN  IF top.sid = None
            THEN /\ slog' = [slog EXCEPT ![ch] =
                        @ \o <<BodyEnded(None, exc), ScopeLeft(exc)>>]
                 /\ UNCHANGED cpc
            ELSE /\ slog' = [slog EXCEPT ![ch] =
                        @ \o <<BodyEnded(top.sid, exc),
                               SEv("req", "end", top.sid, "COMPLETED")>>]
                 /\ cpc' = [cpc EXCEPT ![ch] = "s_end"]
    /\ frames' = [frames EXCEPT ![ch] = SubSeq(@, 1, Len(@) - 1)]
    /\ UNCHANGED <<active, nsc, callVars>>

\* The with-body ends, normally or by an exception thrown into the generator
\* at its yield: finally, _active_session.reset(token) and
\* end_session(s["id"]); for a scope whose create failed the generator
\* returns, or lets the exception through, at once.
ScopeExit(ch) ==
    /\ cpc[ch] = "idle" /\ frames[ch] # <<>>
    /\ \E exc \in Excs \cup {"-"} :
        LET top == frames[ch][Len(frames[ch])]
        IN  IF top.sid = None
            THEN /\ slog' = [slog EXCEPT ![ch] =
                        @ \o <<BodyEnded(None, exc), ScopeLeft(exc)>>]
                 /\ UNCHANGED <<active, cpc>>
            ELSE /\ active' = [active EXCEPT ![ch] = top.token]
                 /\ slog' = [slog EXCEPT ![ch] =
                        @ \o <<BodyEnded(top.sid, exc),
                               SEv("req", "end", top.sid, "COMPLETED")>>]
                 /\ cpc' = [cpc EXCEPT ![ch] = "s_end"]
    /\ frames' = [frames EXCEPT ![ch] = SubSeq(@, 1, Len(@) - 1)]
    /\ UNCHANGED <<nsc, callVars>>

\* end_session's exception leaving the generator in place of the outcome of
\* the body.
ScopeEndedRaises(ch, ok) ==
    /\ cpc[ch] = "s_end"
    /\ slog' = [slog EXCEPT ![ch] =
            @ \o <<SEv(IF ok THEN "ok" ELSE "fail", "end", None, "COMPLETED"),
                   ScopeLeft(IF ok THEN BodyExc(ch) ELSE "ProvenantError")>>]
    /\ cpc' = [cpc EXCEPT ![ch] = "idle"]
    /\ UNCHANGED <<active, frames, nsc, callVars>>

\* end_session returned, or raised (warning only): the generator ends and
\* the with statement re-raises what the body raised, if anything.
ScopeEnded(ch, ok) ==
    /\ cpc[ch] = "s_end"
    /\ slog' = [slog EXCEPT ![ch] =
            @ \o <<SEv(IF ok THEN "ok" ELSE "fail", "end", None, "COMPLETED"),
                   ScopeLeft(BodyExc(ch))>>]
    /\ cpc' = [cpc EXCEPT ![ch] = "idle"]
    /\ UNCHANGED <<active, frames, nsc, callVars>>

-----------------------------------------------------------------------------
\* One call on one chain, with the session scopes of that chain.
Next ==
    \/ \E c \in OneCall, ch \in OneChain :
        \/ SyncEnter(c, ch)
        \/ AsyncEnter(c, ch)
        \/ FlagEnter(c, ch)
        \/ CtxEnter(c, ch)
    \/ \E c \in OneCall :
        \/ SyncOrigReturn(c)
        \/ SyncOrigRaise(c)
        \/ SyncExcept(c)
        \/ SyncReturn(c)
        \/ Reraise(c)
        \/ AsyncPreDone(c)
        \/ AsyncOrigReturn(c)
        \/ AsyncOrigRaise(c)
        \/ FlagOrigReturn(c)
        \/ FlagOrigRaise(c)
        \/ FlagDrainNext(c)
        \/ FlagDrainRaise(c)
        \/ FlagReturn(c)
        \/ CtxEnterOk(c)
        \/ CtxEnterRaise(c)
        \/ CtxNext(c)
        \/ CtxBody(c)
        \/ CtxExit(c)
    \/ \E c \in OneCall, u \in Units :
        \/ UnitIssue(c, u)
        \/ UnitOk(c, u)
        \/ UnitFail(c, u)
        \/ UnitLocal(c, u)
    \/ \E ch \in OneChain :
        \/ ScopeEnter(ch)
        \/ ScopeCreated(ch)
        \/ ScopeCreateFailed(ch)
        \/ ScopeExit(ch)
        \/ \E ok \in BOOLEAN : ScopeEnded(ch, ok)

Spec == Init /\ [][Next]_vars

-----------------------------------------------------------------------------
\* Two synchronous calls made by two threads, call c by thread c, with no
\* session scope open and no tool results in the input: the calls, their
\* creation units and their recording units interleave freely.

SyncEnterPlain(c) == SyncEnter(c, c) /\ call'[c].tools = 0

NextPair ==
    \/ \E c \in Calls :
        \/ SyncEnterPlain(c)
        \/ SyncOrigReturn(c)
        \/ SyncOrigRaise(c)
        \/ SyncExcept(c)
        \/ SyncReturn(c)
        \/ Reraise(c)
    \/ \E c \in Calls, u \in Units :
        \/ UnitIssue(c, u)
        \/ UnitOk(c, u)
        \/ UnitFail(c, u)
        \/ UnitLocal(c, u)

SpecPair == Init /\ [][NextPair]_vars

-----------------------------------------------------------------------------
\* The same request made twice, first through the synchronous wrapper (call
\* 1), then, once that call and its units have finished, through the
\* asynchronous wrapper (call 2) with the same messages.

\* The call has returned or raised and every unit it started has run to its end.
Quiescent(c) ==
    /\ mpc[c] = "done"
    /\ \A u \in Units : unit[c][u].st = "none" \/ Finished(c, u)

TwinSyncEnter == SyncEnter(1, 1)

TwinAsyncEnter ==
    /\ Quiescent(1)
    /\ AsyncEnter(2, 2)
    /\ call'[2].tools = call[1].tools /\ call'[2].user = call[1].user

NextTwin ==
    \/ TwinSyncEnter
    \/ TwinAsyncEnter
    \/ \E c \in Calls :
        \/ SyncOrigReturn(c)
        \/ SyncOrigRaise(c)
        \/ SyncExcept(c)
        \/ SyncReturn(c)
        \/ Reraise(c)
        \/ AsyncPreDone(c)
        \/ AsyncOrigReturn(c)
        \/ AsyncOrigRaise(c)
    \/ \E c \in Calls, u \in Units :
        \/ UnitIssue(c, u)
        \/ UnitOk(c, u)
        \/ UnitFail(c, u)
        \/ UnitLocal(c, u)

SpecTwin == Init /\ [][NextTwin]_vars

-----------------------------------------------------------------------------
\* instrument(client, api_key=..., agent_id=...): resolve the agent, then
\* patch the client according to its module and class name.

\* "anthropic" in identifier, "openai" in identifier, "async" in qualname.
IsAnthropic(client) == client \in {"anthropic.Anthropic", "anthropic.AsyncAnthropic"}
IsOpenai(client) == client \in {"openai.OpenAI", "openai.AsyncOpenAI"}
IsAsync(client) == client \in {"anthropic.AsyncAnthropic", "openai.AsyncOpenAI"}

\* The call shapes the _instrument_* function chosen for the client patches.
PatchedShapes(client) ==
    CASE IsAnthropic(client) /\ ~IsAsync(client) -> {"sync", "flag", "ctx"}
      [] IsOpenai(client) /\ ~IsAsync(client) -> {"sync", "flag"}
      [] IsAnthropic(client) \/ IsOpenai(client) -> {"async"}
      [] OTHER -> {}

ProviderOf(client) == IF IsAnthropic(client) THEN "anthropic" ELSE "openai"

instVars == <<active, frames, cpc, nsc, slog, call, mpc, unit, slot, strm, orig, out, hist, wlog, wfc>>

\* instrument is called: an agent_id matching _UUID_RE is used as it is, a
\* name is resolved by get_or_create_agent.
InstrumentCall ==
    /\ inst.pc = "idle"
    /\ \E client \in Clients, agent \in AgentIds :
            inst' = [inst EXCEPT !.client = client, !.agent = agent,
                                 !.pc = IF agent = "uuid" THEN "dispatch" ELSE "resolve"]
    /\ UNCHANGED instVars

\* get_or_create_agent returns the agent id, or raises (ProvenantError, a
\* network error, the HTTP timeout) and the exception leaves instrument.
InstrumentResolved(ok) ==
    /\ inst.pc = "resolve"
    /\ inst' = IF ok THEN [inst EXCEPT !.pc = "dispatch"]
               ELSE [inst EXCEPT !.pc = "done", !.out = Raised("ProvenantError")]
    /\ UNCHANGED instVars

\* The dispatch on the client's identifier: patch and return the client, or
\* raise ValueError.
InstrumentDispatch ==
    /\ inst.pc = "dispatch"
    /\ inst' = [inst EXCEPT !.pc = "done",
                            !.out = IF PatchedShapes(inst.client) # {}
                                    THEN Returned(inst.client)
                                    ELSE Raised("ValueError")]
    /\ UNCHANGED instVars

\* The wrapper of the shape is installed on the client, and the call is
\* made with messages in the client's provider format.
Patched(c, shape) ==
    /\ inst.out.k = "ret" /\ shape \in PatchedShapes(inst.client)
    /\ \E messages \in InputMessages :
        /\ call'[c].tools = ToolTurns(ProviderOf(inst.client), messages)
        /\ call'[c].user = (LastUser(messages) # None)

PatchedSyncEnter(c, ch) == SyncEnter(c, ch) /\ Patched(c, "sync")
PatchedAsyncEnter(c, ch) == AsyncEnter(c, ch) /\ Patched(c, "async")
PatchedFlagEnter(c, ch) == FlagEnter(c, ch) /\ Patched(c, "flag")
PatchedCtxEnter(c, ch) == CtxEnter(c, ch) /\ Patched(c, "ctx")

\* instrument, then one call through the patched client, no scope open.
NextInstrument ==
    \/ InstrumentCall
    \/ \E ok \in BOOLEAN : InstrumentResolved(ok)
    \/ InstrumentDispatch
    \/ \E c \in OneCall, ch \in OneChain :
        \/ PatchedSyncEnter(c, ch)
        \/ PatchedAsyncEnter(c, ch)
        \/ PatchedFlagEnter(c, ch)
        \/ PatchedCtxEnter(c, ch)
    \/ \E c \in OneCall :
        \/ SyncOrigReturn(c)
        \/ SyncOrigRaise(c)
        \/ SyncExcept(c)
        \/ SyncReturn(c)
        \/ Reraise(c)
        \/ AsyncPreDone(c)
        \/ AsyncOrigReturn(c)
        \/ AsyncOrigRaise(c)
        \/ FlagOrigReturn(c)
        \/ FlagOrigRaise(c)
        \/ FlagDrainNext(c)
        \/ FlagDrainRaise(c)
        \/ FlagReturn(c)
        \/ CtxEnterOk(c)
        \/ CtxEnterRaise(c)
        \/ CtxNext(c)
        \/ CtxBody(c)
        \/ CtxExit(c)
    \/ \E c \in OneCall, u \in Units :
        \/ UnitIssue(c, u)
        \/ UnitOk(c, u)
        \/ UnitFail(c, u)
        \/ UnitLocal(c, u)

SpecInstrument == Init /\ [][NextInstrument]_vars

-----------------------------------------------------------------------------
\* ProvenantClient.wait_for_completion(run_id, poll_interval_seconds,
\* timeout_seconds), with the clock time.time() reads.

wfcVars == <<active, frames, cpc, nsc, slog, call, mpc, unit, slot, strm, orig, out, hist, wlog, inst>>

\* deadline = time.time() + timeout_seconds
WaitCall ==
    /\ wfc.pc = "idle"
    /\ \E timeout \in 0..MaxTimeout, interval \in 1..MaxInterval :
            wfc' = [wfc EXCEPT !.pc = "test", !.deadline = wfc.now + timeout,
                               !.interval = interval]
    /\ UNCHANGED wfcVars

\* while time.time() < deadline: ... ; raise TimeoutError(...)
WaitTest ==
    /\ wfc.pc = "test"
    /\ wfc' = IF wfc.now < wfc.deadline
              THEN [wfc EXCEPT !.pc = "get"]
              ELSE [wfc EXCEPT !.pc = "done", !.out = Raised("TimeoutError")]
    /\ UNCHANGED wfcVars

\* run = self.get_eval_run(run_id), which takes some time and returns the
\* run; if run["status"] in ("COMPLETED", "FAILED"): return run.
WaitGet ==
    /\ wfc.pc = "get"
    /\ \E took \in 0..MaxLatency, status \in RunStatuses :
            wfc' = IF status \in {"COMPLETED", "FAILED"}
                   THEN [wfc EXCEPT !.pc = "done", !.now = @ + took, !.polls = @ + 1,
                                    !.out = Returned(status)]
                   ELSE [wfc EXCEPT !.pc = "sleep", !.now = @ + took, !.polls = @ + 1]
    /\ UNCHANGED wfcVars

\* get_eval_run raises (ProvenantError, a network error, the HTTP timeout):
\* nothing catches it.
WaitGetRaise ==
    /\ wfc.pc = "get"
    /\ \E took \in 0..MaxLatency :
            wfc' = [wfc EXCEPT !.pc = "done", !.now = @ + took, !.polls = @ + 1,
                               !.out = Raised("ProvenantError")]
    /\ UNCHANGED wfcVars

\* time.sleep(poll_interval_seconds)
WaitSleep ==
    /\ wfc.pc = "sleep"
    /\ wfc' = [wfc EXCEPT !.pc = "test", !.now = @ + wfc.interval]
    /\ UNCHANGED wfcVars

NextWait ==
    \/ WaitCall
    \/ WaitTest
    \/ WaitGet
    \/ WaitGetRaise
    \/ WaitSleep

SpecWait == Init /\ [][NextWait]_vars

-----------------------------------------------------------------------------
\* What the backend has seen of call c.

Log(c) == wlog[c]
Idx(c) == 1..Len(wlog[c])

IsReq(ev, op, arg) == ev.e = "req" /\ ev.op = op /\ ev.arg = arg
IsOk(ev, op, arg) == ev.e = "ok" /\ ev.op = op /\ ev.arg = arg

Requests(c, op, arg) == {i \in Idx(c) : IsReq(Log(c)[i], op, arg)}
NumRequests(c, op, arg) == Cardinality(Requests(c, op, arg))
EndRequests(c) == Requests(c, "end", "COMPLETED") \cup Requests(c, "end", "FAILED")
TurnRequests(c) ==
    Requests(c, "turn", "TOOL") \cup Requests(c, "turn", "USER")
        \cup Requests(c, "turn", "ASSISTANT")

\* create_session of call c has returned a session.
SessionCreated(c) == \E i \in Idx(c) : IsOk(Log(c)[i], "create", "-")

\* Every request of the call was answered, and answered with success.
BackendSucceeded(c) ==
    /\ \A u \in Units : ~unit[c][u].wait
    /\ \A i \in Idx(c) : Log(c)[i].e # "fail"

\* No request of the call was answered with success.
BackendFailed(c) == \A i \in Idx(c) : Log(c)[i].e # "ok"

Unmanaged(c) == mpc[c] # "idle" /\ ~call[c].managed
Managed(c) == mpc[c] # "idle" /\ call[c].managed

\* The exception the caller sees: the wrapped call raised, or the scoped
\* stream's body raised and the underlying __exit__ did not suppress it.
ExceptionPropagated(c) ==
    /\ mpc[c] = "done"
    /\ \/ out[c].k = "raise"
       \/ out[c].k = "exit" /\ out[c].v[1] # "-" /\ out[c].v[2] = "false"

\* The original call failed: it raised, or the scoped stream's body did.
OriginalFailed(c) ==
    \/ orig[c].k = "raise"
    \/ call[c].shape = "ctx" /\ hist[c].bodyExc # "-"

-----------------------------------------------------------------------------
\* C1: with every backend write failing, a wrapped call whose original call
\* succeeds hands the caller exactly what the original call produced (the
\* same chunks in the same order for a stream) and raises nothing.
PassthroughUnderFailingBackend ==
    \A c \in Calls :
        (mpc[c] = "done" /\ BackendFailed(c) /\ orig[c].k # "raise")
            => (out[c].k # "raise" /\ out[c] = orig[c])

\* A drained two-chunk stream handed back while every write failed.
PassthroughWitness ==
    \E c \in Calls :
        /\ Quiescent(c) /\ BackendFailed(c)
        /\ \E i \in Idx(c) : Log(c)[i].e = "fail"
        /\ orig[c].k = "iter" /\ Len(orig[c].v) = MaxChunks
        /\ out[c] = orig[c]

\* C2: the caller's outcome is decided by the original call alone: whatever
\* the backend does (answers, fails, is slow, never answers), a finished call
\* gave the caller the original call's response or exception, so two runs
\* with the same original behaviour give the same outcome.
OutcomeIndependentOfBackend ==
    \A c \in Calls : mpc[c] = "done" => out[c] = orig[c]

\* The original exception re-raised after the FAILED marking itself failed,
\* while an earlier request of the call had succeeded.
OutcomeWitness ==
    \E c \in Calls :
        /\ mpc[c] = "done" /\ out[c].k = "raise" /\ out[c] = orig[c]
        /\ \E i \in Idx(c) : Log(c)[i].e = "ok"
        /\ \E i \in Answers(c, "m") : Log(c)[i].e = "fail"

\* C3: an unmanaged call whose original call raises re-raises the same
\* exception, and with a responsive, succeeding backend (input with a user
\* message) the backend sees one create_session, one USER turn, one
\* end_session(FAILED) and no ASSISTANT turn.
FailedCallRecorded ==
    \A c \in Calls :
        (Unmanaged(c) /\ mpc[c] = "done" /\ orig[c].k = "raise")
            => /\ out[c] = orig[c]
               /\ (Quiescent(c) /\ BackendSucceeded(c) /\ ~hist[c].timedOut
                        /\ call[c].user)
                    => /\ NumRequests(c, "create", "-") = 1
                       /\ NumRequests(c, "turn", "USER") = 1
                       /\ NumRequests(c, "end", "FAILED") = 1
                       /\ NumRequests(c, "turn", "ASSISTANT") = 0

\* C4: a session created by an unmanaged call has exactly one end_session
\* once the call and all its units have finished.
UnmanagedEndedExactlyOnce ==
    \A c \in Calls :
        (Unmanaged(c) /\ Quiescent(c) /\ SessionCreated(c))
            => Cardinality(EndRequests(c)) = 1

\* C5: an unmanaged session is ended COMPLETED only when the original call
\* succeeded, and FAILED whenever the exception reaches the caller, in every
\* call shape.
EndStatusMatchesOutcome ==
    \A c \in Calls :
        Unmanaged(c) =>
            /\ Requests(c, "end", "COMPLETED") # {}
                    => (orig[c].k # "raise" /\ ~ExceptionPropagated(c))
            /\ (Quiescent(c) /\ SessionCreated(c) /\ ExceptionPropagated(c))
                    => Requests(c, "end", "FAILED") # {}

\* C6: an unmanaged call issues no add_turn before its create_session has
\* returned the session the turn is written to.
TurnAfterCreateConfirmed ==
    \A c \in Calls :
        Unmanaged(c) =>
            \A i \in TurnRequests(c) :
                \E j \in 1..(i - 1) :
                    /\ IsOk(Log(c)[j], "create", "-")
                    /\ Log(c)[j].sid = Log(c)[i].sid
                    /\ Log(c)[i].sid # None

\* An unmanaged call whose ASSISTANT turn was written after the bounded wait
\* had been passed with the creation unit finished.
TurnAfterCreateWitness ==
    \E c \in Calls :
        /\ Unmanaged(c) /\ Quiescent(c) /\ call[c].shape = "sync"
        /\ \E i \in Idx(c) : IsOk(Log(c)[i], "turn", "ASSISTANT")
        /\ \E i \in Idx(c) : IsOk(Log(c)[i], "turn", "USER")

\* C7: in the synchronous wrappers, when the bounded wait of 5 expired with
\* the creation unit unfinished, or create_session failed, no ASSISTANT turn
\* is ever written for the call.
AssistantSkippedAfterTimeout ==
    \A c \in Calls :
        (/\ Unmanaged(c) /\ call[c].shape = "sync" /\ orig[c].k = "ret"
         /\ \/ hist[c].timedOut
            \/ \E i \in Idx(c) : Log(c)[i].e = "fail" /\ Log(c)[i].op = "create")
            => Requests(c, "turn", "ASSISTANT") = {}

\* C8: a managed call issues no create_session and no end_session, and every
\* turn it writes goes to the session that was active at entry.
ManagedNeverCreatesOrEnds ==
    \A c \in Calls :
        Managed(c) =>
            /\ Requests(c, "create", "-") = {}
            /\ EndRequests(c) = {}
            /\ \A i \in TurnRequests(c) : Log(c)[i].sid = call[c].sid0

\* A managed scoped-stream call, left through an exception, whose ASSISTANT
\* turn reached the scope's session.
ManagedWitness ==
    \E c \in Calls :
        /\ Managed(c) /\ Quiescent(c) /\ call[c].shape = "ctx"
        /\ hist[c].bodyExc # "-"
        /\ \E i \in Idx(c) : IsOk(Log(c)[i], "turn", "ASSISTANT")
                                /\ Log(c)[i].sid = call[c].sid0

\* The scope of the chain has been left and its end_session answered.
ScopeClosed(ch) == nsc[ch] > 0 /\ frames[ch] = <<>> /\ cpc[ch] = "idle"

ScopeSucceeded(ch) == \A i \in 1..Len(slog[ch]) : slog[ch][i].e # "fail"

ScopeRequests(ch, op) ==
    {i \in 1..Len(slog[ch]) : slog[ch][i].e = "req" /\ slog[ch][i].op = op}

\* C9: with a succeeding backend, after the calls made inside a scope, the
\* scope's exit and the end of all units, the backend has seen one
\* create_session, per call one USER and one ASSISTANT turn to the scope's
\* session, and one end_session(COMPLETED).
ScopeStitching ==
    \A c \in Calls :
        (/\ Managed(c) /\ Quiescent(c) /\ BackendSucceeded(c)
         /\ call[c].user /\ ~OriginalFailed(c) /\ hist[c].final # "raise"
         /\ ScopeClosed(call[c].ch) /\ ScopeSucceeded(call[c].ch))
            => /\ Cardinality(ScopeRequests(call[c].ch, "create"))
                    + NumRequests(c, "create", "-") = 1
               /\ NumRequests(c, "turn", "USER") = 1
               /\ NumRequests(c, "turn", "ASSISTANT") = 1
               /\ \A i \in TurnRequests(c) : Log(c)[i].sid = call[c].sid0
               /\ Cardinality(ScopeRequests(call[c].ch, "end"))
                    + Cardinality(EndRequests(c)) = 1

\* C10: in a call that writes a USER and an ASSISTANT turn, the USER
\* add_turn has completed before the ASSISTANT add_turn is issued.
UserBeforeAssistant ==
    \A c \in Calls :
        Requests(c, "turn", "USER") # {} =>
            \A i \in Requests(c, "turn", "ASSISTANT") :
                \E j \in 1..(i - 1) : IsOk(Log(c)[j], "turn", "USER")

\* The sessions the backend created for call c.
CreatedSids(c) == {Log(c)[i].sid : i \in {j \in Idx(c) : IsOk(Log(c)[j], "create", "-")}}

\* The sessions named by the turns and end_sessions issued for call c.
WrittenSids(c) ==
    {Log(c)[i].sid : i \in {j \in Idx(c) : Log(c)[j].e = "req"
                                            /\ Log(c)[j].op \in {"turn", "end"}}}

\* C11: two concurrent calls with no active session create one session
\* each, the two sessions differ, and every turn and end_session issued for
\* one call names the session created for that call, never the other's,
\* however the calls and their background units interleave.
ConcurrentCallsOwnSessions ==
    \A c \in Calls, d \in Calls :
        (c # d /\ Unmanaged(c) /\ Unmanaged(d)) =>
            /\ NumRequests(c, "create", "-") <= 1
            /\ CreatedSids(c) \cap CreatedSids(d) = {}
            /\ WrittenSids(c) \subseteq CreatedSids(c)
            /\ WrittenSids(c) \cap CreatedSids(d) = {}

\* Both calls still inside the wrapper, both sessions created, and the USER
\* turns of both in flight at the same time.
ConcurrentCallsWitness ==
    \A c \in Calls :
        /\ Unmanaged(c) /\ mpc[c] # "done"
        /\ unit[c]["t"].wait /\ Head(unit[c]["t"].todo) = "user"
        /\ WrittenSids(c) = CreatedSids(c) /\ Cardinality(CreatedSids(c)) = 1

\* The open scopes of the chain that installed a session, and the session of
\* the innermost of them (None when there is none).
Installed(ch) == {i \in 1..Len(frames[ch]) : frames[ch][i].sid # None}
InnermostSid(ch) ==
    IF Installed(ch) = {} THEN None
    ELSE frames[ch][CHOOSE i \in Installed(ch) : \A j \in Installed(ch) : j <= i].sid

BeforeOriginal(c) == mpc[c] \in {"pre", "enter"}

\* C14: in every call shape the original provider call is invoked before
\* the caller has waited for any backend write: no backend answer for the
\* call arrives while the original call is still to be invoked.
OriginalNotDelayed ==
    \A c \in Calls :
        BeforeOriginal(c) => \A i \in Idx(c) : Log(c)[i].e = "req"

\* The final writes of a call: the ASSISTANT turn and end_session(COMPLETED).
FinalRequests(c) ==
    Requests(c, "turn", "ASSISTANT") \cup Requests(c, "end", "COMPLETED")

\* C15: in the synchronous and the asynchronous wrappers the ASSISTANT
\* add_turn and end_session(COMPLETED) are issued by the unit started as the
\* call returns: the caller is never found inside the wrapper with one of
\* them issued, so the return does not wait for them, and the caller has the
\* original response whatever becomes of them.
ReturnPrecedesFinalWrites ==
    \A c \in Calls :
        call[c].shape \in {"sync", "async"} =>
            /\ FinalRequests(c) # {} => (mpc[c] = "done" /\ out[c].k = "ret")
            /\ (mpc[c] = "done" /\ orig[c].k = "ret") => out[c] = orig[c]

\* An unmanaged call that has returned the response while its ASSISTANT turn
\* was written and its end_session(COMPLETED) was then refused.
ReturnPrecedesWitness ==
    \E c \in Calls :
        /\ Unmanaged(c) /\ Quiescent(c) /\ call[c].shape \in {"sync", "async"}
        /\ out[c] = Returned("resp")
        /\ \E i \in Idx(c) : IsOk(Log(c)[i], "turn", "ASSISTANT")
        /\ \E i \in Answers(c, "r") : Log(c)[i].e = "fail" /\ Log(c)[i].op = "end"

\* The caller itself is waiting for the backend to answer a request: an
\* awaited pre-call write, or the FAILED marking of the except branch.
CallerWaitsOnBackend(c) ==
    \/ mpc[c] = "pre" /\ unit[c]["t"].wait
    \/ mpc[c] = "endF" /\ unit[c]["m"].wait

\* C16: once the original call has returned or raised, the caller waits for
\* nothing but the two bounded joins before it returns or raises: it is
\* never waiting for the backend to answer a request.
CallerNeverBlockedOnBackend ==
    \A c \in Calls : orig[c].k # "none" => ~CallerWaitsOnBackend(c)

\* C17: in the synchronous wrappers no backend write is made by a unit that
\* runs on the caller's own thread: every create_session, add_turn and
\* end_session is made by a background thread.
SyncWritesOffCallerThread ==
    \A c \in Calls :
        call[c].shape \in {"sync", "flag", "ctx"} =>
            \A i \in Idx(c) : Log(c)[i].u # "m"

\* The creation unit of the call is running and has yet to write to the
\* result slot (the session id or the success flag).
PendingSlotWrite(c) ==
    /\ unit[c]["t"].st = "run"
    /\ \E i \in 1..Len(unit[c]["t"].todo) : unit[c]["t"].todo[i] \in {"create", "setok"}

\* The step reads the result slot of call c: the except branch after its
\* join, __exit__ after its join, or the guard of _record_and_end.
ReadsSlot(c) ==
    \/ mpc[c] = "join2" /\ mpc'[c] # "join2"
    \/ mpc[c] = "exit" /\ mpc'[c] # "exit"
    \/ /\ unit[c]["r"].todo # <<>> /\ Head(unit[c]["r"].todo) = "check"
       /\ unit'[c]["r"] # unit[c]["r"]

\* C18: the result slot is written by the creation unit alone, each cell at
\* most once, and every read of it (by the caller after its join, by the
\* ASSISTANT-recording unit) happens when the creation unit has no write to
\* the slot left to make.
SlotReadAfterProducer ==
    [][\A c \in Calls :
            /\ (call[c].shape \in {"sync", "ctx"} /\ ReadsSlot(c))
                    => ~PendingSlotWrite(c)
            /\ (call[c].shape \in {"sync", "ctx"} /\ slot'[c] # slot[c])
                    => /\ PendingSlotWrite(c)
                       /\ slot[c].sid # slot'[c].sid => slot[c].sid = None
                       /\ slot[c].ok # slot'[c].ok => ~slot[c].ok]_vars

\* C19: no add_turn of an unmanaged call is issued to a session whose
\* end_session (COMPLETED or FAILED) has already been issued.
NoTurnAfterEnd ==
    \A c \in Calls :
        Unmanaged(c) => \A i \in TurnRequests(c) : ~Log(c)[i].late

\* C20: with stream=True, when the recording unit is started and when the
\* call returns, the underlying response sequence has been consumed to its
\* end, and the sequence the caller gets holds exactly its elements, in
\* their order.
StreamDrainedBeforeReturn ==
    \A c \in Calls :
        call[c].shape = "flag" =>
            /\ unit[c]["r"].st # "none"
                    => (strm[c].src = <<>> /\ strm[c].chunks = orig[c].v)
            /\ (mpc[c] = "done" /\ out[c].k # "raise")
                    => (strm[c].src = <<>> /\ out[c] = Iterated(orig[c].v))

\* A stream=True call that handed back a sequence of MaxChunks elements and
\* whose recording unit has since written the ASSISTANT turn.
StreamDrainedWitness ==
    \E c \in Calls :
        /\ call[c].shape = "flag" /\ mpc[c] = "done"
        /\ out[c].k = "iter" /\ Len(out[c].v) = MaxChunks
        /\ out[c].v = SubSeq(ChunkNames, 1, MaxChunks)
        /\ \E i \in Idx(c) : IsOk(Log(c)[i], "turn", "ASSISTANT")

\* The first n elements a provider sends.
Prefix(n) == SubSeq(ChunkNames, 1, n)

\* C21: for the scoped stream, get_final_message is not invoked while the
\* caller is entering the scope or inside its body, only once the scope exit
\* has begun (so at most once, by the single __exit__), and inside the scope
\* the wrapper consumes nothing: the elements the caller has taken followed
\* by those left in the underlying stream are the stream as it was produced.
FinalMessageOnlyAtExit ==
    \A c \in Calls :
        call[c].shape = "ctx" =>
            /\ mpc[c] \in {"enter", "body", "exit"} => hist[c].final = "-"
            /\ mpc[c] \in {"body", "exit"}
                    => strm[c].chunks \o strm[c].src = orig[c].v
            /\ mpc[c] = "done" /\ out[c].k = "exit"
                    => SubSeq(out[c].v, 3, Len(out[c].v)) \o strm[c].src
                            = Prefix(Len(out[c].v) - 2 + Len(strm[c].src))

\* A scoped stream left after the caller took one of two elements, with
\* get_final_message invoked at the exit and the ASSISTANT turn written.
FinalMessageWitness ==
    \E c \in Calls :
        /\ call[c].shape = "ctx" /\ mpc[c] = "done" /\ hist[c].final = "ok"
        /\ Len(strm[c].chunks) = 1 /\ Len(strm[c].src) = 1
        /\ \E i \in Idx(c) : IsOk(Log(c)[i], "turn", "ASSISTANT")

\* C22: instrument raises only for an unsupported client type: for a
\* supported client it returns that client and raises nothing, whatever the
\* backend answers to the agent-name resolution, and no call made through
\* the patched client raises anything but what the original call raised.
InstrumentRaisesOnlyUnsupported ==
    /\ inst.pc = "done" =>
            IF PatchedShapes(inst.client) # {}
            THEN inst.out = Returned(inst.client)
            ELSE inst.out = Raised("ValueError")
    /\ \A c \in Calls : mpc[c] = "done" => out[c] = orig[c]

\* The sessions the scopes of the chain created, and those still open.
ScopeSids(ch) ==
    {slog[ch][i].sid : i \in {j \in 1..Len(slog[ch]) :
                                slog[ch][j].e = "ok" /\ slog[ch][j].op = "create"}}
OpenSids(ch) == {frames[ch][i].sid : i \in 1..Len(frames[ch])}

\* The end_sessions issued for session sid by the scopes of the chain, and
\* by the wrapped calls.
ScopeEnds(ch, sid) ==
    {i \in ScopeRequests(ch, "end") : slog[ch][i].sid = sid}
CallEnds(sid) ==
    {c \in Calls : \E i \in EndRequests(c) : Log(c)[i].sid = sid}

\* C23: a session created by a scope has no end_session while the scope is
\* open and exactly one, issued by the scope's exit with status COMPLETED,
\* once it is left, whether the body ended normally or by an exception; and
\* what the with statement gives the caller is what the body did (its
\* exception, or nothing), also when end_session fails.
ScopeEndedOnceByExit ==
    \A ch \in Chains :
        /\ \A sid \in ScopeSids(ch) :
            /\ CallEnds(sid) = {}
            /\ Cardinality(ScopeEnds(ch, sid)) = IF sid \in OpenSids(ch) THEN 0 ELSE 1
            /\ \A i \in ScopeEnds(ch, sid) : slog[ch][i].arg = "COMPLETED"
        /\ \A i \in 1..Len(slog[ch]) :
                slog[ch][i].e = "left" =>
                    \E j \in 1..(i - 1) :
                        /\ slog[ch][j].e = "body"
                        /\ \A k \in (j + 1)..(i - 1) : slog[ch][k].e # "body"
                        /\ slog[ch][j].arg = slog[ch][i].arg

\* A scope whose body raised after a managed call wrote to its session, and
\* whose end_session was refused: the exception reached the caller.
ScopeEndedWitness ==
    \E ch \in Chains :
        /\ ScopeClosed(ch) /\ ScopeSids(ch) # {}
        /\ \E i \in 1..Len(slog[ch]) : slog[ch][i].op = "end" /\ slog[ch][i].e = "fail"
        /\ slog[ch][Len(slog[ch])] = ScopeLeft("exc")
        /\ \E c \in Calls : Managed(c) /\ call[c].ch = ch
                /\ \E i \in Idx(c) : IsOk(Log(c)[i], "turn", "ASSISTANT")

\* C24: wait_for_completion returns a run only with status COMPLETED or
\* FAILED; it polls only before the deadline, and when it raises the timeout
\* error the deadline has passed by at most one poll interval.
WaitStopsAtDeadline ==
    /\ (wfc.pc = "done" /\ wfc.out.k = "ret")
            => wfc.out.v[1] \in {"COMPLETED", "FAILED"}
    /\ (wfc.pc = "done" /\ wfc.out = Raised("TimeoutError"))
            => (wfc.deadline <= wfc.now /\ wfc.now <= wfc.deadline + wfc.interval)

\* Every end_session issued for session sid, by a wrapped call or by a scope.
EndsFor(sid) ==
    UNION {{<<"call", c, i>> : i \in {j \in EndRequests(c) : Log(c)[j].sid = sid}}
                : c \in Calls}
      \cup UNION {{<<"scope", ch, i>> : i \in ScopeEnds(ch, sid)} : ch \in Chains}

\* The sessions created so far, by calls and by scopes.
AllSids == UNION {CreatedSids(c) : c \in Calls} \cup UNION {ScopeSids(ch) : ch \in Chains}

\* C25: no session has more than one end_session issued for it, so none
\* gets both FAILED and COMPLETED, whatever the call shape and whatever the
\* backend answers and however late.
AtMostOneEnd ==
    /\ \A sid \in AllSids : Cardinality(EndsFor(sid)) <= 1
    /\ \A c \in Calls :
            ~(Requests(c, "end", "FAILED") # {} /\ Requests(c, "end", "COMPLETED") # {})

\* An unmanaged synchronous call whose original call raised after the
\* session was created: one end_session, FAILED, and all units finished.
AtMostOneEndWitness ==
    \E c \in Calls :
        /\ Unmanaged(c) /\ Quiescent(c) /\ call[c].shape = "sync"
        /\ orig[c].k = "raise" /\ hist[c].timedOut
        /\ NumRequests(c, "end", "FAILED") = 1
        /\ \E i \in Idx(c) : IsOk(Log(c)[i], "turn", "USER")

\* C26: every add_turn a managed call issues to the scope's session is
\* issued before the scope's end_session for that session.
ManagedTurnsBeforeScopeEnd ==
    \A c \in Calls :
        Managed(c) => \A i \in TurnRequests(c) : ~Log(c)[i].late

\* The scope entries of the chain whose create_session failed, and the
\* scope bodies that have ended.
FailedCreates(ch) ==
    {i \in 1..Len(slog[ch]) : slog[ch][i].e = "fail" /\ slog[ch][i].op = "create"}
BodiesEnded(ch) == {i \in 1..Len(slog[ch]) : slog[ch][i].e = "body"}

IsRequest(ev) == ev.e = "req"
Writes(c) ==
    LET reqs == SelectSeq(Log(c), IsRequest)
    IN  [i \in 1..Len(reqs) |-> <<reqs[i].op, reqs[i].arg>>]

\* The answers the backend gave to the requests of call c, by kind of request.
Answered(c) ==
    {<<Log(c)[i].op, Log(c)[i].arg, Log(c)[i].e>> :
        i \in {j \in Idx(c) : Log(c)[j].e # "req"}}

\* The backend treated each kind of request the same way in both calls.
SameBackend(c, d) ==
    \A x \in Answered(c) \cup Answered(d), y \in Answered(c) \cup Answered(d) :
        (x[1] = y[1] /\ x[2] = y[2]) => x[3] = y[3]

\* C28: a synchronous and an asynchronous call with the same messages, the
\* same outcome of the original call and the same outcome of each backend
\* request (the bounded wait not expired) issue the same sequence of
\* backend writes.
SyncAsyncSameWrites ==
    \A c \in Calls, d \in Calls :
        (/\ call[c].shape = "sync" /\ call[d].shape = "async"
         /\ Quiescent(c) /\ Quiescent(d)
         /\ call[c].tools = call[d].tools /\ call[c].user = call[d].user
         /\ call[c].managed = call[d].managed
         /\ orig[c] = orig[d] /\ ~hist[c].timedOut
         /\ SameBackend(c, d))
            => Writes(c) = Writes(d)

\* C29: when the original call of a stream=True request, or the draining of
\* its response sequence, raises, the caller gets that same exception, no
\* background unit was started and no backend request was issued for the
\* call: no session was created, so none is left open.
FlagRaiseWritesNothing ==
    \A c \in Calls :
        (mpc[c] # "idle" /\ call[c].shape = "flag" /\ orig[c].k = "raise")
            => /\ mpc[c] = "done" /\ out[c] = orig[c]
               /\ \A u \in Units : unit[c][u].st = "none"
               /\ Log(c) = <<>> /\ CreatedSids(c) = {}

\* The sequence raised after it had handed out an element, outside any scope.
FlagRaiseWitness ==
    \E c \in Calls :
        /\ mpc[c] = "done" /\ call[c].shape = "flag" /\ Unmanaged(c)
        /\ orig[c].k = "raise" /\ out[c] = orig[c]
        /\ strm[c].chunks # <<>>

\* C30: the step that leaves the scoped stream wrapper's __exit__ is the one
\* step that invokes the underlying __exit__; it hands it the exception the
\* body ended with and gives the caller the value it returned, whether a
\* recording unit was started, the accessor raised, the bounded wait expired
\* or nothing was recorded; the underlying __exit__ is never invoked again.
CtxExitDelegatesOnce ==
    [][\A c \in Calls :
        /\ orig[c].k = "exit" => orig'[c] = orig[c]
        /\ (call[c].shape = "ctx" /\ mpc[c] = "exit" /\ mpc'[c] # "exit")
                => orig'[c].k = "exit"
        /\ (orig[c].k # "exit" /\ orig'[c].k = "exit")
                => /\ call[c].shape = "ctx" /\ mpc[c] = "exit" /\ mpc'[c] = "done"
                   /\ orig'[c].v[1] = hist[c].bodyExc
                   /\ out'[c].k = "exit"
                   /\ out'[c].v[1] = orig'[c].v[1]
                   /\ out'[c].v[2] = orig'[c].v[2]]_vars

\* The body raised, the bounded wait expired, nothing was recorded and the
\* underlying __exit__ answered false.
CtxExitWitness ==
    \E c \in Calls :
        /\ call[c].shape = "ctx" /\ mpc[c] = "done" /\ orig[c].k = "exit"
        /\ hist[c].timedOut /\ unit[c]["r"].st = "none"
        /\ hist[c].bodyExc # "-" /\ out[c].v[1] = hist[c].bodyExc
        /\ out[c].v[2] = "false"

====
